---- MODULE Spec2Model ----
(***************************************************************************)
(* Model of src/main.py: the turn loop of VoiceAgent (run, capture,        *)
(* chat, speak), the exit-phrase normalisation of AgentConfig.from_env     *)
(* and the interrupt handling of main().                                   *)
(*                                                                         *)
(* Text is a sequence of one-character strings, so that str.strip(),       *)
(* str.lower(), str.split(",") and "".join() are computed, not assumed.    *)
(* An Optional value is a sequence of length at most one: None is << >>    *)
(* and a value x is << x >>.                                               *)
(***************************************************************************)
EXTENDS Integers, Sequences, FiniteSets, TLC

VARIABLES
    config,       \* AgentConfig: text_only, max_turns, exit_phrases, system_prompt
    history,      \* VoiceAgent.history: sequence of [role, content]
    engine,       \* VoiceAgent.engine: "None" or "live" (pyttsx3 engine object)
    pc,           \* position of control in main()/run()
    turns,        \* local `turns` of run()
    user_text,    \* local `user_text` of run(): Optional text
    parts,        \* local `parts` of chat(): fragments received in this iteration
    reply,        \* local `reply` of run(): result of chat()
    input,        \* what the environment delivered to this iteration's capture
    logged,       \* logging calls made during this iteration
    spoken,       \* texts handed to engine.say(), in order
    top,          \* history, turns and spoken as they were at the top of this iteration
    iters,        \* number of iterations started
    interrupted   \* a KeyboardInterrupt was delivered

vars == << config, history, engine, pc, turns, user_text, parts, reply,
           input, logged, spoken, top, iters, interrupted >>

----------------------------------------------------------------------------
(* Bounds of the model *)

MaxIters == 2
MaxFragments == 2
MaxTurnsCfg == 2

----------------------------------------------------------------------------
(* Optional values *)

None == << >>
Some(x) == << x >>

----------------------------------------------------------------------------
(* Text: str.strip, str.lower, str.split, str.join *)

UpperLetters == << "A", "B", "C", "D", "E", "F", "G", "H", "I", "J", "K", "L", "M",
                   "N", "O", "P", "Q", "R", "S", "T", "U", "V", "W", "X", "Y", "Z" >>
LowerLetters == << "a", "b", "c", "d", "e", "f", "g", "h", "i", "j", "k", "l", "m",
                   "n", "o", "p", "q", "r", "s", "t", "u", "v", "w", "x", "y", "z" >>

IsSpace(c) == c \in {" ", "\t", "\n"}

LowerChar(c) ==
    IF \E i \in 1..Len(UpperLetters) : UpperLetters[i] = c
    THEN LowerLetters[CHOOSE i \in 1..Len(UpperLetters) : UpperLetters[i] = c]
    ELSE c

Lower(s) == [i \in 1..Len(s) |-> LowerChar(s[i])]

RECURSIVE LStrip(_)
LStrip(s) == IF s # << >> /\ IsSpace(Head(s)) THEN LStrip(Tail(s)) ELSE s

RECURSIVE RStrip(_)
RStrip(s) ==
    IF s # << >> /\ IsSpace(s[Len(s)]) THEN RStrip(SubSeq(s, 1, Len(s) - 1)) ELSE s

Strip(s) == RStrip(LStrip(s))

RECURSIVE Join(_)
Join(ps) == IF ps = << >> THEN << >> ELSE Head(ps) \o Join(Tail(ps))

\* s.split(sep): the pieces between the separators, empty pieces kept
RECURSIVE SplitAcc(_, _, _)
SplitAcc(s, sep, cur) ==
    IF s = << >> THEN << cur >>
    ELSE IF Head(s) = sep THEN << cur >> \o SplitAcc(Tail(s), sep, << >>)
    ELSE SplitAcc(Tail(s), sep, Append(cur, Head(s)))

Split(s, sep) == SplitAcc(s, sep, << >>)

----------------------------------------------------------------------------
(* AgentConfig.from_env: EXIT_PHRASES *)

DefaultExitPhrases == << << "e", "x", "i", "t" >>, << "q", "u", "i", "t" >>, << "b", "y", "e" >> >>

ExitPhrasesFromEnv(exit_raw) ==
    LET kept == SelectSeq(Split(exit_raw, ","), LAMBDA p : Strip(p) # << >>)
        t == [i \in 1..Len(kept) |-> Lower(Strip(kept[i]))]
    IN  IF t = << >> THEN DefaultExitPhrases ELSE t

\* values of the EXIT_PHRASES environment variable: " Q,,h " and ","
ExitRawOptions ==
    { << " ", "Q", ",", ",", "h", " " >>, << "," >> }

\* values of MAX_TURNS after _get_int: unset, or an integer
MaxTurnsOptions == { None } \cup { Some(n) : n \in (-1)..MaxTurnsCfg }

\* values of SYSTEM_PROMPT: unset, empty, or a text
SystemPromptOptions == { None, Some(<< >>), Some(<< "s" >>) }

----------------------------------------------------------------------------
(* What the environment can deliver *)

\* lines typed on stdin, and texts returned by the transcription service
InputLines ==
    { << >>, << " " >>, << " ", "Q", " " >>, << "H", "i", "\t" >>, << "b", "Y", "e" >> }

\* values of chunk.choices[0].delta.get("content", "")
Fragments == { << >>, << " " >>, << "a" >> }

\* a wider set of deltas, for the specification of one chat() call (SpecChat)
WideFragments == { << >>, << " " >>, << "H", "e", "l" >>, << "l", "o" >> }

NoInput == [src |-> "none", kind |-> "none", raw |-> << >>]

Message(role, content) == [role |-> role, content |-> content]

----------------------------------------------------------------------------
(* VoiceAgent.__init__ *)

InitialHistoryAlways(system_prompt) ==
    << Message("system", IF system_prompt = None THEN << >> ELSE system_prompt[1]) >>

\* config.system_prompt is appended only when it is truthy (neither None nor "")
InitialHistory(system_prompt) ==
    IF system_prompt # None /\ system_prompt[1] # << >>
    THEN << Message("system", system_prompt[1]) >>
    ELSE << >>

\* _create_engine(): the engine, or None when pyttsx3.init()/setProperty raised
CreateEngineResults == { "live", "None" }

Snapshot == [history |-> history, turns |-> turns, spoken |-> spoken]

Init ==
    /\ \E text_only \in BOOLEAN, max_turns \in MaxTurnsOptions,
          exit_raw \in ExitRawOptions, system_prompt \in SystemPromptOptions :
            /\ config = [text_only |-> text_only,
                         max_turns |-> max_turns,
                         exit_phrases |-> ExitPhrasesFromEnv(exit_raw),
                         system_prompt |-> system_prompt]
            /\ history = InitialHistory(system_prompt)
            /\ engine \in (IF text_only THEN { "None" } ELSE CreateEngineResults)
    /\ pc = "loop"
    /\ turns = 0
    /\ user_text = None
    /\ parts = << >>
    /\ reply = << >>
    /\ input = NoInput
    /\ logged = { }
    /\ spoken = << >>
    /\ top = [history |-> history, turns |-> 0, spoken |-> << >>]
    /\ iters = 0
    /\ interrupted = FALSE

----------------------------------------------------------------------------
(* VoiceAgent.run: the loop condition *)

OffByOneLoopCondition(max_turns, t) ==
    IF max_turns = None THEN TRUE ELSE t <= max_turns[1]

\* self.config.max_turns is None or turns < self.config.max_turns
LoopCondition(max_turns, t) ==
    IF max_turns = None THEN TRUE ELSE t < max_turns[1]

\* the condition holds: the body starts with capture_user_input()
LoopEnter ==
    /\ pc = "loop"
    /\ LoopCondition(config.max_turns, turns)
    /\ iters < MaxIters
    /\ iters' = iters + 1
    /\ pc' = IF config.text_only THEN "stdin" ELSE "record"
    /\ top' = Snapshot
    /\ input' = NoInput
    /\ parts' = << >>
    /\ logged' = IF config.text_only THEN { } ELSE { "recording" }
    /\ UNCHANGED << config, history, engine, turns, user_text, reply, spoken, interrupted >>

\* the condition fails: run() logs the session summary and returns
LoopExit ==
    /\ pc = "loop"
    /\ ~LoopCondition(config.max_turns, turns)
    /\ pc' = "run_returned"
    /\ logged' = logged \cup { "session_finished" }
    /\ UNCHANGED << config, history, engine, turns, user_text, parts, reply,
                    input, spoken, top, iters, interrupted >>

----------------------------------------------------------------------------
(* VoiceAgent.run: from the captured text to break / continue / chat() *)

RawIsExitPhrase(text, phrases) == \E i \in 1..Len(phrases) : phrases[i] = text

IsExitPhrase(text, phrases) == \E i \in 1..Len(phrases) : phrases[i] = Lower(text)

BlankBreaksDispatch(result, phrases) ==
    IF result = None THEN "break_eof"
    ELSE IF Strip(result[1]) = << >> THEN "break_blank"
    ELSE IF IsExitPhrase(Strip(result[1]), phrases) THEN "break_exit"
    ELSE "chat"

BlankChatsDispatch(result, phrases) ==
    IF result = None THEN "break_eof"
    ELSE IF IsExitPhrase(Strip(result[1]), phrases) THEN "break_exit"
    ELSE "chat"

EofContinuesDispatch(result, phrases) ==
    IF result = None THEN "continue"
    ELSE IF Strip(result[1]) = << >> THEN "continue"
    ELSE IF IsExitPhrase(Strip(result[1]), phrases) THEN "break_exit"
    ELSE "chat"

Dispatch(result, phrases) ==
    IF result = None THEN "break_eof"
    ELSE IF Strip(result[1]) = << >> THEN "continue"
    ELSE IF IsExitPhrase(Strip(result[1]), phrases) THEN "break_exit"
    ELSE "chat"

\* lines 233-241 of run() and the first two lines of chat()
RunBody(result, inp, lg) ==
    LET d == Dispatch(result, config.exit_phrases)
        s == IF result = None THEN None ELSE Some(Strip(result[1]))
    IN  /\ input' = inp
        /\ user_text' = s
        /\ pc' = CASE d = "chat" -> "chat_create"
                   [] d = "continue" -> "loop"
                   [] OTHER -> "run_returned"
        /\ history' = IF d = "chat" THEN Append(history, Message("user", s[1])) ELSE history
        /\ logged' = CASE d = "chat" -> lg \cup { "requesting" }
                       [] d = "continue" -> lg
                       [] d = "break_exit" -> lg \cup { "exit_phrase", "session_finished" }
                       [] OTHER -> lg \cup { "session_finished" }
        /\ UNCHANGED << config, engine, turns, parts, reply, spoken, top, iters, interrupted >>

----------------------------------------------------------------------------
(* VoiceAgent.capture_user_input, record_audio, transcribe *)

\* text mode: input("You: ").strip()
ReadLine ==
    /\ pc = "stdin"
    /\ \E line \in InputLines :
          RunBody(Some(Strip(line)), [src |-> "stdin", kind |-> "text", raw |-> line], logged)

\* text mode: input() raises EOFError
ReadEOF ==
    /\ pc = "stdin"
    /\ RunBody(None, [src |-> "stdin", kind |-> "eof", raw |-> << >>],
               logged \cup { "input_closed" })

\* text mode: input() raises another Exception
ReadFails ==
    /\ pc = "stdin"
    /\ RunBody(Some(<< >>), [src |-> "stdin", kind |-> "error", raw |-> << >>],
               logged \cup { "stdin_failed" })

\* voice mode: sd.rec()/sd.wait() return a clip
RecordOk ==
    /\ pc = "record"
    /\ pc' = "transcribe"
    /\ UNCHANGED << config, history, engine, turns, user_text, parts, reply,
                    input, logged, spoken, top, iters, interrupted >>

\* voice mode: the capture raises; record_audio returns None, capture returns ""
RecordFails ==
    /\ pc = "record"
    /\ RunBody(Some(<< >>), [src |-> "mic", kind |-> "error", raw |-> << >>],
               logged \cup { "mic_failed" })

\* voice mode: the service answers; transcribe returns transcript.text.strip()
TranscribeOk ==
    /\ pc = "transcribe"
    /\ \E text \in InputLines :
          RunBody(Some(Strip(text)), [src |-> "mic", kind |-> "text", raw |-> text],
                  logged \cup { IF Strip(text) # << >> THEN "transcript" ELSE "no_speech" })

\* voice mode: encoding or the request raises; transcribe returns ""
TranscribeFails ==
    /\ pc = "transcribe"
    /\ RunBody(Some(<< >>), [src |-> "mic", kind |-> "error", raw |-> << >>],
               logged \cup { "transcription_failed" })

----------------------------------------------------------------------------
(* VoiceAgent.chat and the rest of the iteration *)

NoRollback(h) == h

PopFirst(h) == Tail(h)

\* self.history.pop() in the except block
Rollback(h) == SubSeq(h, 1, Len(h) - 1)

ChatExceptPropagates ==
    /\ logged' = logged \cup { "chat_failed" }
    /\ pc' = "run_raised"
    /\ UNCHANGED << config, history, engine, turns, user_text, parts, reply, input,
                    spoken, top, iters, interrupted >>

ChatExceptCountsTurn ==
    /\ history' = Rollback(history)
    /\ reply' = << >>
    /\ logged' = logged \cup { "chat_failed" }
    /\ pc' = "loop"
    /\ turns' = turns + 1
    /\ UNCHANGED << config, engine, user_text, parts, input, spoken, top,
                    iters, interrupted >>

\* the except block of chat(), then `if not reply: continue` in run()
ChatExcept ==
    /\ history' = Rollback(history)
    /\ reply' = << >>
    /\ logged' = logged \cup { "chat_failed" }
    /\ pc' = "loop"
    /\ UNCHANGED << config, engine, turns, user_text, parts, input, spoken, top,
                    iters, interrupted >>

\* client.chat.completions.create(...) returns a stream
ChatCreateOk ==
    /\ pc = "chat_create"
    /\ pc' = "chat_stream"
    /\ parts' = << >>
    /\ UNCHANGED << config, history, engine, turns, user_text, reply, input,
                    logged, spoken, top, iters, interrupted >>

\* client.chat.completions.create(...) raises
ChatCreateFails ==
    /\ pc = "chat_create"
    /\ ChatExcept

\* the stream yields a chunk: an empty delta is skipped, another is appended
ChatChunkFrom(deltas) ==
    /\ pc = "chat_stream"
    /\ Len(parts) < MaxFragments
    /\ \E delta \in deltas :
          parts' = IF delta = << >> THEN parts ELSE Append(parts, delta)
    /\ UNCHANGED << config, history, engine, pc, turns, user_text, reply, input,
                    logged, spoken, top, iters, interrupted >>

ChatChunk == ChatChunkFrom(Fragments)

ChatChunkWide == ChatChunkFrom(WideFragments)

\* iterating the stream raises
ChatStreamFails ==
    /\ pc = "chat_stream"
    /\ ChatExcept

RECURSIVE Reverse(_)
Reverse(ps) == IF ps = << >> THEN << >> ELSE Append(Reverse(Tail(ps)), Head(ps))

ReverseOrderReply(ps) == Strip(Join(Reverse(ps)))

\* reply = "".join(parts).strip()
AccumulatedReply(ps) == Strip(Join(ps))

\* the stream ends: lines 184-189 of chat(), then lines 242-246 of run()
ChatStreamEnds ==
    /\ pc = "chat_stream"
    /\ LET r == AccumulatedReply(parts)
       IN  /\ reply' = r
           /\ history' = IF r # << >> THEN Append(history, Message("assistant", r))
                         ELSE history
           /\ logged' = IF r # << >> THEN logged ELSE logged \cup { "empty_response" }
           /\ pc' = IF r = << >> THEN "loop"
                    ELSE IF ~config.text_only THEN "speak" ELSE "loop"
           /\ turns' = IF r # << >> /\ config.text_only THEN turns + 1 ELSE turns
    /\ UNCHANGED << config, engine, user_text, parts, input, spoken, top, iters, interrupted >>

----------------------------------------------------------------------------
(* VoiceAgent.speak, then `turns += 1` *)

\* speak() returns at once: there is no engine
SpeakNoEngine ==
    /\ pc = "speak"
    /\ reply = << >> \/ engine = "None"
    /\ pc' = "loop"
    /\ turns' = turns + 1
    /\ UNCHANGED << config, history, engine, user_text, parts, reply, input,
                    logged, spoken, top, iters, interrupted >>

SpeakOkSaysUserText ==
    /\ pc = "speak"
    /\ reply # << >> /\ engine # "None"
    /\ spoken' = Append(spoken, user_text[1])
    /\ pc' = "loop"
    /\ turns' = turns + 1
    /\ UNCHANGED << config, history, engine, user_text, parts, reply, input,
                    logged, top, iters, interrupted >>

\* engine.say(text); engine.runAndWait()
SpeakOk ==
    /\ pc = "speak"
    /\ reply # << >> /\ engine # "None"
    /\ spoken' = Append(spoken, reply)
    /\ pc' = "loop"
    /\ turns' = turns + 1
    /\ UNCHANGED << config, history, engine, user_text, parts, reply, input,
                    logged, top, iters, interrupted >>

SpeakFailsAborts ==
    /\ pc = "speak"
    /\ reply # << >> /\ engine # "None"
    /\ spoken' = Append(spoken, reply)
    /\ logged' = logged \cup { "tts_failed" }
    /\ pc' = "run_raised"
    /\ UNCHANGED << config, history, engine, turns, user_text, parts, reply, input,
                    top, iters, interrupted >>

\* playback raises: logged, and the engine is kept
SpeakFails ==
    /\ pc = "speak"
    /\ reply # << >> /\ engine # "None"
    /\ spoken' = Append(spoken, reply)
    /\ logged' = logged \cup { "tts_failed" }
    /\ pc' = "loop"
    /\ turns' = turns + 1
    /\ UNCHANGED << config, history, engine, user_text, parts, reply, input,
                    top, iters, interrupted >>

----------------------------------------------------------------------------
(* KeyboardInterrupt, and main() *)

InRun == { "loop", "stdin", "record", "transcribe", "chat_create", "chat_stream", "speak" }

\* KeyboardInterrupt is no Exception: record_audio and capture_user_input
\* re-raise it, no other handler of the class catches it, run() has none
Interrupt ==
    /\ pc \in InRun
    /\ interrupted' = TRUE
    /\ pc' = "run_raised"
    /\ logged' = IF pc = "record" THEN logged \cup { "recording_interrupted" } ELSE logged
    /\ UNCHANGED << config, history, engine, turns, user_text, parts, reply,
                    input, spoken, top, iters >>

\* agent.run() returned: main() returns
MainReturns ==
    /\ pc = "run_returned"
    /\ pc' = "main_done"
    /\ UNCHANGED << config, history, engine, turns, user_text, parts, reply,
                    input, logged, spoken, top, iters, interrupted >>

\* agent.run() raised KeyboardInterrupt: main() logs and returns
MainCatches ==
    /\ pc = "run_raised"
    /\ pc' = "main_done"
    /\ logged' = logged \cup { "interrupted_goodbye" }
    /\ UNCHANGED << config, history, engine, turns, user_text, parts, reply,
                    input, spoken, top, iters, interrupted >>

Next ==
    \/ LoopEnter
    \/ LoopExit
    \/ ReadLine
    \/ ReadEOF
    \/ ReadFails
    \/ RecordOk
    \/ RecordFails
    \/ TranscribeOk
    \/ TranscribeFails
    \/ ChatCreateOk
    \/ ChatCreateFails
    \/ ChatChunk
    \/ ChatStreamFails
    \/ ChatStreamEnds
    \/ SpeakNoEngine
    \/ SpeakOk
    \/ SpeakFails
    \/ Interrupt
    \/ MainReturns
    \/ MainCatches

Spec == Init /\ [][Next]_vars

----------------------------------------------------------------------------
(* One chat() call and its rendering, with the wider set of deltas *)

\* the first iteration of a session, when run() calls chat(): the state that
\* LoopEnter and a capture of a non-blank, non-exit text lead to from Init
InitChat ==
    /\ \E text_only \in BOOLEAN, max_turns \in MaxTurnsOptions,
          exit_raw \in ExitRawOptions, system_prompt \in SystemPromptOptions,
          line \in InputLines :
            /\ LoopCondition(max_turns, 0)
            /\ Dispatch(Some(Strip(line)), ExitPhrasesFromEnv(exit_raw)) = "chat"
            /\ config = [text_only |-> text_only,
                         max_turns |-> max_turns,
                         exit_phrases |-> ExitPhrasesFromEnv(exit_raw),
                         system_prompt |-> system_prompt]
            /\ history = Append(InitialHistory(system_prompt), Message("user", Strip(line)))
            /\ top = [history |-> InitialHistory(system_prompt), turns |-> 0,
                      spoken |-> << >>]
            /\ engine \in (IF text_only THEN { "None" } ELSE CreateEngineResults)
            /\ user_text = Some(Strip(line))
            /\ input = [src |-> IF text_only THEN "stdin" ELSE "mic",
                        kind |-> "text", raw |-> line]
            /\ logged = IF text_only THEN { "requesting" }
                        ELSE { "recording", "transcript", "requesting" }
    /\ pc = "chat_create"
    /\ turns = 0
    /\ parts = << >>
    /\ reply = << >>
    /\ spoken = << >>
    /\ iters = 1
    /\ interrupted = FALSE

NextChat ==
    \/ ChatCreateOk
    \/ ChatCreateFails
    \/ ChatChunkWide
    \/ ChatStreamFails
    \/ ChatStreamEnds
    \/ SpeakNoEngine
    \/ SpeakOk
    \/ SpeakFails

SpecChat == InitChat /\ [][NextChat]_vars

----------------------------------------------------------------------------
(* Vocabulary of the properties, stated without Strip and Lower *)

AllSpaces(s) == \A i \in 1..Len(s) : IsSpace(s[i])

SameLetter(a, b) ==
    \/ a = b
    \/ \E i \in 1..Len(UpperLetters) :
          {a, b} = {UpperLetters[i], LowerLetters[i]}

\* r is p in some letter case, between some leading and some trailing whitespace
EqUpToCaseWs(r, p) ==
    \E i \in 0..Len(r), j \in 0..Len(r) :
        /\ i + j + Len(p) = Len(r)
        /\ \A k \in 1..i : IsSpace(r[k])
        /\ \A k \in (Len(r) - j + 1)..Len(r) : IsSpace(r[k])
        /\ \A k \in 1..Len(p) : SameLetter(r[i + k], p[k])

MatchesExitPhrase(r) ==
    \E i \in 1..Len(config.exit_phrases) : EqUpToCaseWs(r, config.exit_phrases[i])

\* this iteration's capture produced no text: a fault, or only whitespace
BlankCapture ==
    \/ input.kind = "error"
    \/ input.kind = "text" /\ AllSpaces(input.raw)

RunEnded == pc \in { "run_returned", "run_raised", "main_done" }

TurnLimitReached ==
    IF config.max_turns = None THEN FALSE ELSE turns >= config.max_turns[1]

----------------------------------------------------------------------------
(* Properties *)

\* C1: at the top of every iteration of run() the history holds no two
\* consecutive messages with role "user".
C1_NoConsecutiveUsers ==
    pc = "loop" =>
        \A i \in 1..(Len(history) - 1) :
            ~(history[i].role = "user" /\ history[i + 1].role = "user")

\* C2: after a completion call that failed (at request time or mid-stream) the
\* history is the history the iteration started with: the user message is
\* removed and no partial reply is appended.
C2_FailedChatRollsBack ==
    "chat_failed" \in logged => history = top.history

C2_Witness ==
    /\ "chat_failed" \in logged
    /\ pc = "loop"
    /\ Len(parts) = 2
    /\ Len(top.history) >= 2

\* C3: after a completion call that succeeded with an empty (or whitespace-only)
\* reply, the history is the history the iteration started with and nothing
\* was synthesised.
C3_EmptyReplySkipsTurn ==
    "empty_response" \in logged =>
        /\ history = top.history
        /\ spoken = top.spoken

\* C4: in voice mode, once capture or transcription has yielded no usable text
\* in an iteration, the controller reads a line from stdin in that iteration
\* (after which `input` is that line).
C4_VoiceFallbackToText ==
    (~config.text_only /\ input.src = "mic" /\ BlankCapture) => pc = "stdin"

\* C5: after a KeyboardInterrupt run() has returned normally (it has not
\* raised to its caller) and the speech engine has been shut down.
C5_InterruptReturnsNormally ==
    interrupted => (pc # "run_raised" /\ engine # "live")

\* C6: once the session has ended, by whatever path, no constructed speech
\* engine is still live (unreleased).
C6_EngineReleasedAtExit ==
    RunEnded => engine # "live"

\* C7: when the captured input equals a configured exit phrase up to letter
\* case and surrounding whitespace, run() returns in that iteration without
\* calling chat(): history, turn counter and synthesis are as at the top of
\* the iteration.
C7_ExitPhraseTerminates ==
    (input.kind = "text" /\ MatchesExitPhrase(input.raw)) =>
        /\ pc \in { "run_returned", "main_done" }
        /\ ~interrupted
        /\ "requesting" \notin logged
        /\ history = top.history
        /\ turns = top.turns
        /\ spoken = top.spoken

C7_Witness ==
    /\ pc = "run_returned"
    /\ input.kind = "text"
    /\ \E i \in 1..Len(config.exit_phrases) :
          /\ EqUpToCaseWs(input.raw, config.exit_phrases[i])
          /\ Len(input.raw) > Len(config.exit_phrases[i])
          /\ Lower(input.raw) # input.raw
    /\ turns = 1

\* C8: with max_turns = N, no iteration is in progress once the turn counter
\* has reached N, and the counter never exceeds N (N counts exchanges: N >= 0).
C8_TurnLimit ==
    IF config.max_turns = None THEN TRUE
    ELSE /\ pc \in (InRun \ { "loop" }) => turns < config.max_turns[1]
         /\ config.max_turns[1] >= 0 => turns <= config.max_turns[1]

C8_Witness ==
    /\ config.max_turns = Some(2)
    /\ turns = 2
    /\ pc = "run_returned"
    /\ input.kind = "text"
    /\ ~MatchesExitPhrase(input.raw)

\* C9: an iteration whose captured text is empty or whitespace-only goes back
\* to the top of the loop with the turn counter and the history unchanged and
\* without a completion request.
C9_BlankInputSkipped ==
    BlankCapture =>
        /\ pc = "loop" \/ interrupted
        /\ "requesting" \notin logged
        /\ history = top.history
        /\ turns = top.turns

C9_Witness ==
    /\ input.kind = "text"
    /\ input.raw = << " " >>
    /\ pc = "loop"
    /\ turns = 1

\* C10: run() has ended only by end-of-input, by an exit phrase, by the turn
\* limit, or by an interrupt (the only way it raises).
C10_TerminationCauses ==
    /\ pc = "run_raised" => interrupted
    /\ (RunEnded /\ ~interrupted) =>
          \/ input.kind = "eof"
          \/ input.kind = "text" /\ MatchesExitPhrase(input.raw)
          \/ TurnLimitReached

C10_Witness ==
    /\ pc = "run_returned"
    /\ input.kind = "eof"
    /\ iters = 2
    /\ turns = 0
    /\ config.max_turns = Some(1)


\* the log records of a fault raised by an external call
FaultTags ==
    { "mic_failed", "transcription_failed", "stdin_failed", "chat_failed", "tts_failed" }

\* C11: after a fault of an external call (capture, transcription, completion,
\* stdin, playback) in an iteration, and without an interrupt, run() has not
\* raised: the fault became "" (capture, chat) and control is back at the top
\* of the loop, which ends only if the turn limit is now reached.
C11_FaultsDoNotPropagate ==
    (logged \cap FaultTags # { } /\ ~interrupted) =>
        /\ pc = "loop" \/ (pc \in { "run_returned", "main_done" } /\ TurnLimitReached)
        /\ input.kind = "error" => user_text = Some(<< >>)
        /\ "chat_failed" \in logged => reply = << >>

C11_Witness ==
    /\ "transcription_failed" \in logged
    /\ pc = "loop"
    /\ turns = 1


\* C12: when the input stream is at end-of-stream, run() returns normally in
\* that iteration with history and turn counter untouched; on the first read
\* that is after zero turns with the history as constructed.
C12_EndOfInputTerminates ==
    input.kind = "eof" =>
        /\ pc \in { "run_returned", "main_done" }
        /\ ~interrupted
        /\ history = top.history
        /\ turns = top.turns
        /\ iters = 1 => (turns = 0 /\ history = InitialHistory(config.system_prompt))

C12_Witness ==
    /\ config.text_only
    /\ input.kind = "eof"
    /\ iters = 1
    /\ pc = "run_returned"


\* the k-th character of the fragments ps laid end to end, in arrival order
RECURSIVE CharAt(_, _)
CharAt(ps, k) ==
    IF k <= Len(Head(ps)) THEN Head(ps)[k] ELSE CharAt(Tail(ps), k - Len(Head(ps)))

RECURSIVE TotalLen(_)
TotalLen(ps) == IF ps = << >> THEN 0 ELSE Len(Head(ps)) + TotalLen(Tail(ps))

\* c is exactly the fragments ps laid end to end
IsConcatOf(c, ps) ==
    /\ Len(c) = TotalLen(ps)
    /\ \A k \in 1..Len(c) : c[k] = CharAt(ps, k)

\* c is the fragments ps laid end to end, less leading and trailing whitespace
IsTrimmedConcatOf(c, ps) ==
    \E i \in 0..TotalLen(ps), j \in 0..TotalLen(ps) :
        /\ i + j + Len(c) = TotalLen(ps)
        /\ \A k \in 1..i : IsSpace(CharAt(ps, k))
        /\ \A k \in (TotalLen(ps) - j + 1)..TotalLen(ps) : IsSpace(CharAt(ps, k))
        /\ \A k \in 1..Len(c) : c[k] = CharAt(ps, i + k)
        /\ c # << >> => (~IsSpace(c[1]) /\ ~IsSpace(c[Len(c)]))

\* this iteration's chat() appended an assistant message
AssistantAppended ==
    /\ Len(history) = Len(top.history) + 2
    /\ history[Len(history)].role = "assistant"

\* C13 as claimed: the assistant message appended by chat() is exactly the
\* concatenation of the received fragments in arrival order, and is what
\* chat() returned.
C13_ReplyIsExactConcatenation ==
    AssistantAppended =>
        /\ IsConcatOf(history[Len(history)].content, parts)
        /\ reply = history[Len(history)].content

\* C13 as amended: the assistant message appended by chat() is the
\* concatenation of the received fragments in arrival order with leading and
\* trailing whitespace removed, and is what chat() returned.
C13_ReplyIsTrimmedConcatenation ==
    AssistantAppended =>
        /\ IsTrimmedConcatOf(history[Len(history)].content, parts)
        /\ reply = history[Len(history)].content

C13_Witness ==
    /\ AssistantAppended
    /\ parts = << << "H", "e", "l" >>, << "l", "o" >> >>
    /\ history[Len(history)].content = << "H", "e", "l", "l", "o" >>
    /\ reply = << "H", "e", "l", "l", "o" >>


\* run() goes on after this iteration: it is back at the top of the loop, or
\* it has returned because the turn limit is now reached
LoopGoesOn ==
    \/ pc = "loop"
    \/ pc \in { "run_returned", "main_done" } /\ TurnLimitReached

\* C14: a synthesis failure (playback raising, or no engine because its
\* initialisation failed) does not abort the loop: the turn is counted, the
\* assistant reply stays in the history and the loop goes on.
C14_SynthesisFailureCounted ==
    /\ "tts_failed" \in logged =>
          /\ turns = top.turns + 1
          /\ AssistantAppended
          /\ history[Len(history)].content = reply
          /\ interrupted \/ LoopGoesOn
    /\ (~config.text_only /\ engine = "None" /\ AssistantAppended
            /\ pc # "speak" /\ ~interrupted) =>
          /\ turns = top.turns + 1
          /\ history[Len(history)].content = reply
          /\ LoopGoesOn

C14_Witness ==
    /\ "tts_failed" \in logged
    /\ pc = "loop"
    /\ turns = 2
    /\ config.max_turns = None


\* what has been synthesised in this iteration: nothing, or (voice mode only)
\* the non-empty reply that this iteration's chat() appended to the history
RenderedThisIteration ==
    \/ spoken = top.spoken
    \/ /\ ~config.text_only
       /\ engine = "live"
       /\ spoken = Append(top.spoken, reply)
       /\ reply # << >>
       /\ AssistantAppended
       /\ history[Len(history)].content = reply

\* C15: synthesis happens only in voice mode, only after this iteration's
\* completion gave a non-empty reply, and with exactly the reply appended to
\* the history; in text-only mode there is no engine and nothing is
\* synthesised; the engine is constructed in __init__ only (no step of the
\* session constructs or replaces it).
C15_RenderingFollowsCompletion ==
    /\ [](RenderedThisIteration)
    /\ [](config.text_only => (engine = "None" /\ spoken = << >>))
    /\ [][engine' = engine]_vars

C15_Witness ==
    /\ ~config.text_only
    /\ pc = "loop"
    /\ Len(spoken) = 2
    /\ spoken = Append(top.spoken, reply)


AssistantMessages == { i \in 1..Len(history) : history[i].role = "assistant" }

\* C16: at the top of every iteration the turn counter equals the number of
\* assistant messages in the history.
C16_TurnsCountAssistantMessages ==
    pc = "loop" => turns = Cardinality(AssistantMessages)

C16_Witness ==
    /\ pc = "loop"
    /\ iters = 2
    /\ turns = 1
    /\ logged \cap { "chat_failed", "empty_response" } # { }


\* C17: a system message stands only first in the history, and only when a
\* system prompt is configured (it is that prompt); every assistant message
\* directly follows a user message, and the one this iteration appended
\* directly follows the user message of the same chat() call.
C17_HistoryShape ==
    /\ \A i \in 1..Len(history) :
          /\ history[i].role = "system" =>
                /\ i = 1
                /\ config.system_prompt # None
                /\ history[i].content = Head(config.system_prompt)
          /\ history[i].role = "assistant" =>
                /\ i > 1
                /\ history[i - 1].role = "user"
    /\ AssistantAppended =>
          history[Len(history) - 1] = Message("user", Head(user_text))

C17_Witness ==
    /\ Len(history) = 5
    /\ history[1].role = "system"
    /\ history[3].role = "assistant"
    /\ history[5].role = "assistant"


IsPrefix(s, t) == Len(s) <= Len(t) /\ SubSeq(t, 1, Len(s)) = s

\* C18: the history at the top of an iteration is a prefix of the history at
\* the top of the next one (hence of every later one) and of every history in
\* between; a step that shortens the history removes exactly its last message,
\* the user message appended by the current chat() call.
C18_HistoryAppendOnly ==
    /\ [](IsPrefix(top.history, history))
    /\ [][IsPrefix(top.history, top'.history)]_vars
    /\ [][Len(history') < Len(history) =>
            /\ history = Append(history', Message("user", Head(user_text)))
            /\ history' = top.history]_vars

C18_Witness ==
    /\ "chat_failed" \in logged
    /\ iters = 2
    /\ pc = "loop"
    /\ Len(history) = 3
    /\ history[3].role = "assistant"

====
